---- MODULE Spec2Model ----
(***************************************************************************)
(* Model of shark: the decision-and-dispatch orchestrator (src/shark.rs)   *)
(* and its command-line consumer loop (src/main.rs).                       *)
(*                                                                         *)
(* Text is a sequence of one-character strings, so that trim, lower-casing *)
(* and quote removal are computed character by character.  The fixed text  *)
(* of a prompt template is one element of the rendered sequence.           *)
(***************************************************************************)
EXTENDS Integers, Sequences, FiniteSets, TLC

\* pc            where main and generate_stream stand (main.rs 37-66)
\* config        Config::functions, the configured tool names (main.rs 24)
\* question      the question asked (main.rs 33)
\* functions     Shark::functions, the catalog (shark.rs 46)
\* log           the "unknown tool" lines printed (shark.rs 192)
\* requests      the calls made on Shark::core, in order (shark.rs 89, 104, 123, 141)
\* decisionReply what the completion request returned (shark.rs 139-143)
\* decision      what request_function returned (shark.rs 78)
\* toolCall      what call_function returned (shark.rs 80)
\* streamPrompt  the prompt of the streaming request (shark.rs 86, 120)
\* result        what generate_stream returned (main.rs 43)
\* stream        the stream main consumes: none, open, ended, failed (main.rs 53-57)
\* pulled        the items stream.next() gave Some(Ok(..)) for (main.rs 57)
\* out           what main wrote to stdout, in order (main.rs 48, 59, 64)
\* rq            the locals of each of several generate_stream calls running
\*               on one Shark (shark.rs 73-93), used by SpecConcurrent only
VARIABLES pc, config, question, functions, log, requests, decisionReply,
          decision, toolCall, streamPrompt, result, stream, pulled, out, rq

vars == <<pc, config, question, functions, log, requests, decisionReply,
          decision, toolCall, streamPrompt, result, stream, pulled, out, rq>>

(***************************************************************************)
(* Bounds                                                                  *)
(***************************************************************************)
\* longest configured list of tool names
MaxNames == 2
\* most successful items one backend stream delivers
MaxPulls == 2

(***************************************************************************)
(* Text                                                                    *)
(***************************************************************************)
UPPER == <<"A","B","C","D","E","F","G","H","I","J","K","L","M",
           "N","O","P","Q","R","S","T","U","V","W","X","Y","Z">>
LOWER == <<"a","b","c","d","e","f","g","h","i","j","k","l","m",
           "n","o","p","q","r","s","t","u","v","w","x","y","z">>

\* the characters str::trim removes (White_Space), as far as they occur here
WHITESPACE == {" ", "\t", "\n"}

\* char::to_lowercase
to_lowercase_char(c) ==
    IF \E i \in 1..Len(UPPER) : UPPER[i] = c
    THEN LOWER[CHOOSE i \in 1..Len(UPPER) : UPPER[i] = c]
    ELSE c

\* str::to_lowercase
to_lowercase(s) == [i \in 1..Len(s) |-> to_lowercase_char(s[i])]

RECURSIVE trim_start(_)
\* str::trim_start
trim_start(s) ==
    IF s # <<>> /\ Head(s) \in WHITESPACE THEN trim_start(Tail(s)) ELSE s

RECURSIVE trim_end(_)
\* str::trim_end
trim_end(s) ==
    IF s # <<>> /\ s[Len(s)] \in WHITESPACE
    THEN trim_end(SubSeq(s, 1, Len(s) - 1))
    ELSE s

\* str::trim
trim(s) == trim_end(trim_start(s))

RECURSIVE replace(_, _, _)
\* str::replace(from, to) for a one-character pattern
replace(s, from, to) ==
    IF s = <<>> THEN <<>>
    ELSE (IF Head(s) = from THEN to ELSE <<Head(s)>>) \o replace(Tail(s), from, to)

\* some occurrence of the text t inside the text s
Contains(s, t) ==
    \E i \in 0..(Len(s) - Len(t)) : SubSeq(s, i + 1, i + Len(t)) = t

(***************************************************************************)
(* Literals of the program                                                 *)
(***************************************************************************)
DDG_SEARCHER == <<"d","d","g","_","s","e","a","r","c","h","e","r">>
RUST_TOOLCHAIN_SWITCHER ==
    <<"r","u","s","t","_","t","o","o","l","c","h","a","i","n","_",
      "s","w","i","t","c","h","e","r">>
NULL == <<"n","u","l","l">>

\* an absent Option and a present one
None == [some |-> FALSE]
Some(v) == [some |-> TRUE, v |-> v]

\* Result values
Ok(v) == [ok |-> TRUE, v |-> v]
Err(e) == [ok |-> FALSE, e |-> e]

\* the empty HashMap
EmptyMap == [k \in {} |-> "DDGSearcher"]

\* HashMap::insert
insert(m, k, v) == [x \in (DOMAIN m) \cup {k} |-> IF x = k THEN v ELSE m[x]]

(***************************************************************************)
(* Shark::parse_functions                                                  *)
(***************************************************************************)
RECURSIVE parse_functions_raw(_, _)
\* the loop with each name compared as configured, neither trimmed nor
\* lower-cased
parse_functions_raw(fs, function_set) ==
    IF fs = <<>> THEN function_set
    ELSE LET function_name == Head(fs)
         IN  parse_functions_raw(Tail(fs),
                 IF function_name = DDG_SEARCHER
                 THEN insert(function_set, DDG_SEARCHER, "DDGSearcher")
                 ELSE IF function_name = RUST_TOOLCHAIN_SWITCHER
                 THEN insert(function_set, RUST_TOOLCHAIN_SWITCHER, "RustToolchainSwitcher")
                 ELSE function_set)

RECURSIVE parse_functions_loop(_, _)
\* the for loop of parse_functions over the remaining names
parse_functions_loop(fs, function_set) ==
    IF fs = <<>> THEN function_set
    ELSE LET function_name == to_lowercase(trim(Head(fs)))
         IN  parse_functions_loop(Tail(fs),
                 IF function_name = DDG_SEARCHER
                 THEN insert(function_set, DDG_SEARCHER, "DDGSearcher")
                 ELSE IF function_name = RUST_TOOLCHAIN_SWITCHER
                 THEN insert(function_set, RUST_TOOLCHAIN_SWITCHER, "RustToolchainSwitcher")
                 ELSE function_set)

parse_functions(fs) == parse_functions_loop(fs, EmptyMap)

RECURSIVE unknown_tools(_)
\* the "unknown tool: {other}" lines parse_functions prints, in order
unknown_tools(fs) ==
    IF fs = <<>> THEN <<>>
    ELSE LET function_name == to_lowercase(trim(Head(fs)))
         IN  (IF function_name \in {DDG_SEARCHER, RUST_TOOLCHAIN_SWITCHER}
              THEN <<>> ELSE <<function_name>>) \o unknown_tools(Tail(fs))

(***************************************************************************)
(* The decision payload: serde_json::from_str::<FucntionResponse>          *)
(*                                                                         *)
(* A payload is the backend's text, held as the JSON value it spells, or   *)
(* NotJson for a text that spells none.  An object keeps its members in    *)
(* the order written, so a repeated member is visible.                     *)
(***************************************************************************)
NotJson    == [t |-> "notjson"]
JNull      == [t |-> "null"]
JBool      == [t |-> "bool"]
JNum       == [t |-> "number"]
JStr(s)    == [t |-> "string", s |-> s]
JArr(xs)   == [t |-> "array", items |-> xs]
JObj(ms)   == [t |-> "object", members |-> ms]
Member(k, v) == [key |-> k, value |-> v]

\* Option<String>::deserialize of one JSON value
deserialize_option_string(v) ==
    IF v.t = "null" THEN Ok(None)
    ELSE IF v.t = "string" THEN Ok(Some(v.s))
    ELSE Err("invalid type")

\* the derived visit_map of FucntionResponse: unknown members are skipped,
\* a second `function` member is an error, a missing one is None
visit_map(ms) ==
    LET at == {i \in 1..Len(ms) : ms[i].key = "function"}
    IN  IF at = {} THEN Ok([function |-> None])
        ELSE LET first == CHOOSE i \in at : \A j \in at : i <= j
                 field == deserialize_option_string(ms[first].value)
             IN  IF ~field.ok THEN field
                 ELSE IF Cardinality(at) > 1 THEN Err("duplicate field")
                 ELSE Ok([function |-> field.v])

\* the derived visit_seq of FucntionResponse: exactly one element
visit_seq(xs) ==
    IF Len(xs) = 0 THEN Err("invalid length")
    ELSE LET field == deserialize_option_string(xs[1])
         IN  IF ~field.ok THEN field
             ELSE IF Len(xs) > 1 THEN Err("trailing elements")
             ELSE Ok([function |-> field.v])

\* from_str with deny_unknown_fields: a member other than `function` is an
\* error
from_str_deny_unknown(p) ==
    IF p.t = "object" /\ \A i \in 1..Len(p.members) : p.members[i].key = "function"
    THEN visit_map(p.members)
    ELSE IF p.t = "array" THEN visit_seq(p.items)
    ELSE Err("invalid")

\* from_str with `function: String`: a missing or null member is an error
from_str_required(p) ==
    IF p.t = "object"
    THEN LET r == visit_map(p.members)
         IN  IF r.ok /\ r.v.function = None THEN Err("missing field") ELSE r
    ELSE IF p.t = "array" THEN visit_seq(p.items)
    ELSE Err("invalid")

\* from_str whose failure is replaced by the default value
\* (unwrap_or_default)
from_str_lenient(p) ==
    IF p.t = "object" /\ visit_map(p.members).ok THEN visit_map(p.members)
    ELSE IF p.t = "array" /\ visit_seq(p.items).ok THEN visit_seq(p.items)
    ELSE Ok([function |-> None])

\* serde_json::from_str::<FucntionResponse>(&function_resp)
from_str(p) ==
    IF p.t = "object" THEN visit_map(p.members)
    ELSE IF p.t = "array" THEN visit_seq(p.items)
    ELSE IF p.t = "notjson" THEN Err("syntax")
    ELSE Err("invalid type")

(***************************************************************************)
(* Shark::request_function, after the backend's reply (lines 145-165)      *)
(***************************************************************************)
\* the name as looked up, its quotes left in
function_name_of_quoted(s) == to_lowercase(trim(s))

\* the name as looked up: trim, to_lowercase, replace("'", "")
function_name_of(s) == replace(to_lowercase(trim(s)), "'", <<>>)

\* the lookup with a miss reported as an error
decide_fail_closed(fns, reply) ==
    IF ~reply.ok THEN Err("transport")
    ELSE LET response == from_str(reply.v)
         IN  IF ~response.ok THEN Err("json")
             ELSE IF response.v.function = None THEN Ok(None)
             ELSE LET function_name == function_name_of(response.v.function.v)
                  IN  IF function_name = NULL THEN Ok(None)
                      ELSE IF function_name \in DOMAIN fns THEN Ok(Some(function_name))
                      ELSE Err("unknown function")

\* reply is the backend's answer to the completion request: Err for a
\* failed call, Ok(payload) otherwise.  The result is Err, Ok(None) or
\* Ok(Some(key)), key naming the catalog entry returned.
decide(fns, reply) ==
    IF ~reply.ok THEN Err("transport")
    ELSE LET response == from_str(reply.v)
         IN  IF ~response.ok THEN Err("json")
             ELSE IF response.v.function = None THEN Ok(None)
             ELSE LET function_name == function_name_of(response.v.function.v)
                  IN  IF function_name = NULL THEN Ok(None)
                      ELSE IF function_name \in DOMAIN fns THEN Ok(Some(function_name))
                      ELSE Ok(None)

(***************************************************************************)
(* Prompt templates (Environment::get_template(..).render(context!{..}))   *)
(*                                                                         *)
(* A rendered prompt is the template's fixed text with each variable's     *)
(* value spliced in, unescaped.  One element stands for a run of fixed     *)
(* text (written in ASCII, the format example of the decision template     *)
(* shortened); the newline that ends a template is dropped by the renderer.*)
(***************************************************************************)
FUNCTION_CALLING_1 == "You are a helpful assistant, you can decide whether to use functions to answer user's question: "
FUNCTION_CALLING_2 == "Here are the names and descriptions of the functions you can use: "
FUNCTION_CALLING_3 == "If you decide to use a function, please response in the following format: ... function: null"
GENERATION_1 == "You are a helpful assistant called shark, answer the question given by user: "
SUMMARIZING_1 == "You are a helpful assistant called shark, given user's question: "
SUMMARIZING_2 == " and the answer of the question: "
SUMMARIZING_3 == ", try to give a short summary. Just response your summary content."

\* Tool::description of a catalog entry
description(tool) ==
    IF tool = "RustToolchainSwitcher"
    THEN "Switch rust toolchain between 'stable', 'nightly' and others"
    ELSE "DDGSearcher::description"

\* the orders in which a HashMap's iterator may yield the keys of m
iter_orders(m) ==
    {o \in [1..Cardinality(DOMAIN m) -> DOMAIN m] :
        \A i, j \in DOMAIN o : o[i] = o[j] => i = j}

RECURSIVE to_string_entries(_, _)
\* serde_json::to_string of the entries, in the order given
to_string_entries(m, order) ==
    IF order = <<>> THEN <<>>
    ELSE <<"\"">> \o Head(order) \o <<"\"", ":", description(m[Head(order)])>>
         \o (IF Len(order) > 1 THEN <<",">> ELSE <<>>)
         \o to_string_entries(m, Tail(order))

\* Shark::functions_description, for one iteration order of the catalog
functions_description(m, order) == <<"{">> \o to_string_entries(m, order) \o <<"}">>

\* template "function-calling" rendered (request_function, lines 134-137)
function_calling_prompt(q, desc) ==
    <<FUNCTION_CALLING_1>> \o q \o <<FUNCTION_CALLING_2>> \o desc \o <<FUNCTION_CALLING_3>>

\* template "summary" rendered with the answer left out
summary_prompt_no_answer(q, answer) ==
    <<SUMMARIZING_1>> \o q \o <<SUMMARIZING_2>> \o <<SUMMARIZING_3>>

\* template "summary" rendered (summarize_stream, lines 119-120)
summary_prompt(q, answer) ==
    <<SUMMARIZING_1>> \o q \o <<SUMMARIZING_2>> \o answer \o <<SUMMARIZING_3>>

\* template "generation" rendered without its variable
generation_prompt_no_question(q) == <<GENERATION_1>>

\* the summary template rendered where the generation template belongs
generation_prompt_wrong_template(q) ==
    <<SUMMARIZING_1>> \o q \o <<SUMMARIZING_2>> \o <<SUMMARIZING_3>>

\* template "generation" rendered (generate_stream, lines 85-86)
generation_prompt(q) == <<GENERATION_1>> \o q

(***************************************************************************)
(* Inputs                                                                  *)
(***************************************************************************)
\* [functions] entries of the configuration file
ConfigNames ==
    { DDG_SEARCHER,
      <<" ","D","D","G","_","S","e","a","r","c","h","e","r","\n">>,
      RUST_TOOLCHAIN_SWITCHER,
      <<"d","d","g"," ","s","e","a","r","c","h","e","r">> }

\* the configured lists of tool names
Configs == UNION {[1..n -> ConfigNames] : n \in 0..MaxNames}

\* the questions asked
Questions == { <<"h","i">>, <<"2","+","2","?">> }

\* `function` strings a decision payload may carry
FunctionStrings ==
    { DDG_SEARCHER,
      <<" ","D","d","g","_","s","e","a","r","c","h","e","r"," ">>,
      <<"'","d","d","g","_","s","e","a","r","c","h","e","r","'">>,
      <<"\"","d","d","g","_","s","e","a","r","c","h","e","r","\"">>,
      <<"d","d","g","_","'","s","e","a","r","c","h","e","r">>,
      RUST_TOOLCHAIN_SWITCHER,
      <<"e","c","h","o">>,
      <<>>,
      NULL,
      <<"N","U","L","L">>,
      <<" ","N","u","l","l","\t">>,
      <<"'","n","u","l","l","'">>,
      <<"\"","n","u","l","l","\"">>,
      <<" ","'","N","U","L","L","'"," ">>,
      <<"'"," ","n","u","l","l"," ","'">> }

\* the raw texts the backend may return to the decision request
Payloads ==
    { NotJson, JNull, JNum, JStr(NULL), JObj(<<>>), JArr(<<>>) }
    \cup { JObj(<<Member("function", JStr(s))>>) : s \in FunctionStrings }
    \cup { JObj(<<Member("function", v)>>) : v \in {JNull, JNum, JBool, JArr(<<>>), JObj(<<>>)} }
    \cup { JObj(<<Member("thought", JNum)>>) }
    \cup { JObj(<<Member("function", v), Member("thought", JNum)>>) :
              v \in {JNull, JNum, JStr(DDG_SEARCHER), JStr(NULL)} }
    \cup { JObj(<<Member("thought", JStr(NULL)), Member("function", v)>>) :
              v \in {JNull, JStr(DDG_SEARCHER)} }
    \cup { JObj(<<Member("function", JStr(DDG_SEARCHER)), Member("function", v)>>) :
              v \in {JNull, JStr(DDG_SEARCHER)} }
    \cup { JArr(<<v>>) : v \in {JNull, JNum, JStr(DDG_SEARCHER)} }
    \cup { JArr(<<JStr(DDG_SEARCHER), JNull>>) }

\* the texts a tool run may hand back
ToolOutputs == { <<"o","k">>, <<"h","i">>, <<>> }

\* the outcomes of Ollama::send_function_call
FunctionCallOutcomes ==
    { Err("function call"), Ok([message |-> None]) }
    \cup { Ok([message |-> Some([content |-> t])]) : t \in ToolOutputs }

(***************************************************************************)
(* RustToolchainSwitcher::run                                              *)
(***************************************************************************)
Panic(what) == [panic |-> what]

\* Value::index("toolchain") then as_str: Some for a string member of an
\* object, None for anything else
toolchain_as_str(input) ==
    IF input.t = "object"
       /\ \E i \in 1..Len(input.members) :
             input.members[i].key = "toolchain" /\ input.members[i].value.t = "string"
    THEN Some((input.members[CHOOSE i \in 1..Len(input.members) :
                 input.members[i].key = "toolchain"
                 /\ input.members[i].value.t = "string"]).value.s)
    ELSE None

\* String::from_utf8 of a captured stream, the empty one giving the empty
\* text
captured(bytes) ==
    IF bytes.len = 0 THEN Ok(<<>>)
    ELSE IF bytes.utf8 THEN Ok(bytes.text)
    ELSE Err("FromUtf8Error")

\* run(input), command being what `rustup default <version>` came to:
\* a panic, an Err, or Ok of the response map that is serialized
run(input, command) ==
    IF ~toolchain_as_str(input).some THEN Panic("as_str().unwrap() on None")
    ELSE IF ~command.ok THEN Err(command.e)
    ELSE IF ~captured(command.v.stdout).ok THEN captured(command.v.stdout)
    ELSE IF ~captured(command.v.stderr).ok THEN captured(command.v.stderr)
    ELSE Ok([result |-> captured(command.v.stdout).v,
             error |-> captured(command.v.stderr).v])

\* the tool inputs the function-call parser may hand to run
ToolInputs ==
    { JObj(<<Member("toolchain", JStr(<<"n","i","g","h","t","l","y">>))>>),
      JObj(<<Member("toolchain", JNum)>>),
      JObj(<<>>),
      JNull }

\* what Command::output gives: an io error, or the two captured streams
CommandOutcomes ==
    LET none == [len |-> 0, utf8 |-> TRUE, text |-> <<>>]
        text == [len |-> 2, utf8 |-> TRUE, text |-> <<"o","k">>]
        bad  == [len |-> 1, utf8 |-> FALSE, text |-> <<>>]
    IN  { Err("io") }
        \cup { Ok([stdout |-> o, stderr |-> e]) : o \in {none, text, bad}, e \in {none, text, bad} }

\* the Vec<GenerationResponse> of one successful stream item, as the
\* `response` texts it carries
Fragments == { <<"a">>, <<"b","c">> }

(***************************************************************************)
(* State                                                                   *)
(***************************************************************************)
Pending   == [pending |-> TRUE]
NotCalled == [called |-> FALSE]

Init ==
    /\ pc = "new"
    /\ config \in Configs
    /\ question \in Questions
    /\ functions = EmptyMap
    /\ log = <<>>
    /\ requests = <<>>
    /\ decisionReply = Pending
    /\ decision = Pending
    /\ toolCall = NotCalled
    /\ streamPrompt = None
    /\ result = Pending
    /\ stream = "none"
    /\ pulled = <<>>
    /\ out = <<>>
    /\ rq = <<>>

\* Shark::new (main.rs line 37)
SharkNew ==
    /\ pc = "new"
    /\ functions' = parse_functions(config)
    /\ log' = unknown_tools(config)
    /\ pc' = "main"
    /\ UNCHANGED <<rq, config, question, requests, decisionReply, decision,
                   toolCall, streamPrompt, result, stream, pulled, out>>

\* generate_stream opening the generation stream together with the decision
\* request instead of after its reply
GenerateStreamEager ==
    /\ pc = "main"
    /\ \E order \in iter_orders(functions) :
          requests' = requests \o
              <<[api |-> "generate",
                 prompt |-> function_calling_prompt(question,
                                functions_description(functions, order))],
                [api |-> "generate_stream", prompt |-> generation_prompt(question)]>>
    /\ pc' = "deciding"
    /\ UNCHANGED <<rq, config, question, functions, log, decisionReply, decision,
                   toolCall, streamPrompt, result, stream, pulled, out>>

\* main calls generate_stream, which calls request_function up to the await
\* of the completion request (lines 77-78, 132-142)
GenerateStream ==
    /\ pc = "main"
    /\ \E order \in iter_orders(functions) :
          requests' = Append(requests,
              [api |-> "generate",
               prompt |-> function_calling_prompt(question,
                              functions_description(functions, order))])
    /\ pc' = "deciding"
    /\ UNCHANGED <<rq, config, question, functions, log, decisionReply, decision,
                   toolCall, streamPrompt, result, stream, pulled, out>>

\* request_function taking the entry out of the catalog (HashMap::remove)
\* instead of cloning it
DecisionReplyRemoves ==
    /\ pc = "deciding"
    /\ \E reply \in {Err("transport")} \cup {Ok(p) : p \in Payloads} :
         LET d == decide(functions, reply) IN
         /\ decisionReply' = reply
         /\ decision' = d
         /\ IF ~d.ok
            THEN /\ result' = Err(d.e)
                 /\ pc' = "returned"
                 /\ UNCHANGED <<requests, streamPrompt>>
            ELSE IF d.v.some
            THEN /\ requests' = Append(requests,
                        [api |-> "send_function_call",
                         tool |-> functions[d.v.v], message |-> question])
                 /\ pc' = "invoking"
                 /\ UNCHANGED <<result, streamPrompt>>
            ELSE /\ requests' = Append(requests,
                        [api |-> "generate_stream", prompt |-> generation_prompt(question)])
                 /\ streamPrompt' = Some(generation_prompt(question))
                 /\ pc' = "opening"
                 /\ UNCHANGED result
         /\ functions' = IF d.ok /\ d.v.some
                          THEN [k \in (DOMAIN functions) \ {d.v.v} |-> functions[k]]
                          ELSE functions
    /\ UNCHANGED <<rq, config, question, log, toolCall, stream, pulled, out>>

\* the completion request returns; request_function finishes and
\* generate_stream runs up to its next await or its return
DecisionReply ==
    /\ pc = "deciding"
    /\ \E reply \in {Err("transport")} \cup {Ok(p) : p \in Payloads} :
         LET d == decide(functions, reply) IN
         /\ decisionReply' = reply
         /\ decision' = d
         /\ IF ~d.ok
            THEN /\ result' = Err(d.e)
                 /\ pc' = "returned"
                 /\ UNCHANGED <<requests, streamPrompt>>
            ELSE IF d.v.some
            THEN /\ requests' = Append(requests,
                        [api |-> "send_function_call",
                         tool |-> functions[d.v.v], message |-> question])
                 /\ pc' = "invoking"
                 /\ UNCHANGED <<result, streamPrompt>>
            ELSE /\ requests' = Append(requests,
                        [api |-> "generate_stream", prompt |-> generation_prompt(question)])
                 /\ streamPrompt' = Some(generation_prompt(question))
                 /\ pc' = "opening"
                 /\ UNCHANGED result
    /\ UNCHANGED <<rq, config, question, functions, log, toolCall, stream, pulled, out>>

\* send_function_call returns; generate_stream unwraps the message and
\* summarize_stream runs up to the await of the streaming request
FunctionCallReply ==
    /\ pc = "invoking"
    /\ \E r \in FunctionCallOutcomes :
         /\ toolCall' = [called |-> TRUE, r |-> r]
         /\ IF ~r.ok
            THEN /\ result' = Err(r.e)
                 /\ pc' = "returned"
                 /\ UNCHANGED <<requests, streamPrompt>>
            ELSE IF ~r.v.message.some
            THEN /\ result' = Panic("message.unwrap() on None")
                 /\ pc' = "panicked"
                 /\ UNCHANGED <<requests, streamPrompt>>
            ELSE LET response == r.v.message.v.content IN
                 /\ requests' = Append(requests,
                        [api |-> "generate_stream",
                         prompt |-> summary_prompt(question, response)])
                 /\ streamPrompt' = Some(summary_prompt(question, response))
                 /\ pc' = "opening"
                 /\ UNCHANGED result
    /\ UNCHANGED <<rq, config, question, functions, log, decisionReply, decision,
                   stream, pulled, out>>

\* inside send_function_call the tool is RustToolchainSwitcher and its run
\* panics: the panic unwinds through generate_stream and main
RunPanics ==
    /\ pc = "invoking"
    /\ requests[Len(requests)].tool = "RustToolchainSwitcher"
    /\ \E input \in ToolInputs, command \in CommandOutcomes :
         /\ "panic" \in DOMAIN run(input, command)
         /\ result' = run(input, command)
    /\ pc' = "panicked"
    /\ UNCHANGED <<rq, config, question, functions, log, requests, decisionReply,
                   decision, toolCall, streamPrompt, stream, pulled, out>>

\* the streaming request returns: generate_stream returns the stream or the
\* error, and on a stream main goes on to its loop (lines 53-56)
StreamOpenReply ==
    /\ pc = "opening"
    /\ \/ /\ result' = Err("transport")
          /\ pc' = "returned"
          /\ UNCHANGED stream
       \/ /\ result' = Ok([stream_of |-> streamPrompt.v])
          /\ stream' = "open"
          /\ pc' = "streaming"
    /\ UNCHANGED <<rq, config, question, functions, log, requests, decisionReply,
                   decision, toolCall, streamPrompt, pulled, out>>

\* the error branch without its return: the message is written and main
\* goes on to the loop
ReportErrorFallsThrough ==
    /\ pc = "returned"
    /\ out' = Append(out, [kind |-> "error", text |-> result.e, flushed |-> TRUE])
    /\ pc' = "streaming"
    /\ UNCHANGED <<rq, config, question, functions, log, requests, decisionReply,
                   decision, toolCall, streamPrompt, result, stream, pulled>>

\* the error branch asking again: the decision request is sent once more
ReportErrorRetries ==
    /\ pc = "returned"
    /\ requests' = Append(requests, requests[1])
    /\ pc' = "exit"
    /\ out' = Append(out, [kind |-> "error", text |-> result.e, flushed |-> TRUE])
    /\ UNCHANGED <<rq, config, question, functions, log, decisionReply,
                   decision, toolCall, streamPrompt, result, stream, pulled>>

\* main, lines 44-51: generate_stream returned Err; the message is written
\* and flushed and main returns
ReportError ==
    /\ pc = "returned"
    /\ out' = Append(out, [kind |-> "error", text |-> result.e, flushed |-> TRUE])
    /\ pc' = "exit"
    /\ UNCHANGED <<rq, config, question, functions, log, requests, decisionReply,
                   decision, toolCall, streamPrompt, result, stream, pulled>>

\* the loop body keeping the responses back instead of writing them
written_buffered(responses) == <<>>

\* the loop body writing the first response of an item only
written_first_only(responses) ==
    IF responses = <<>> THEN <<>>
    ELSE <<[kind |-> "fragment", text |-> responses[1], flushed |-> TRUE]>>

\* the chunks one loop body writes for an item's responses, each flushed
\* (lines 58-61)
written(responses) ==
    [i \in 1..Len(responses) |->
        [kind |-> "fragment", text |-> responses[i], flushed |-> TRUE]]

\* main, lines 57-62: one stream.next() giving Some(Ok(responses)), and the
\* loop body
StreamNextOk ==
    /\ pc = "streaming"
    /\ Len(pulled) < MaxPulls
    /\ \E responses \in Fragments :
         /\ pulled' = Append(pulled, Ok(responses))
         /\ out' = out \o written(responses)
    /\ UNCHANGED <<rq, pc, config, question, functions, log, requests, decisionReply,
                   decision, toolCall, streamPrompt, result, stream>>

\* main, lines 57 and 64-66: stream.next() gives None or Some(Err), the
\* pattern fails, the loop ends and the newline is written
StreamNextEnd ==
    /\ pc = "streaming"
    /\ \/ stream' = "ended"
       \/ stream' = "failed"
    /\ out' = Append(out, [kind |-> "newline", text |-> "\n", flushed |-> FALSE])
    /\ pc' = "exit"
    /\ UNCHANGED <<rq, config, question, functions, log, requests, decisionReply,
                   decision, toolCall, streamPrompt, result, pulled>>

Next ==
    \/ SharkNew
    \/ GenerateStream
    \/ DecisionReply
    \/ FunctionCallReply
    \/ RunPanics
    \/ StreamOpenReply
    \/ ReportError
    \/ StreamNextOk
    \/ StreamNextEnd

Spec == Init /\ [][Next]_vars

(***************************************************************************)
(* Several generate_stream calls on one shared Shark                       *)
(*                                                                         *)
(* Each call is a future of its own with its own locals; the calls share   *)
(* &self, so the catalog, the templates and the backend client.  A step is *)
(* what one call does between two awaits.                                  *)
(***************************************************************************)
\* the calls running together
Requests == {1, 2}

\* the configurations the shared Shark is built from
ConcurrentConfigs == { <<>>, <<DDG_SEARCHER>>, <<DDG_SEARCHER, RUST_TOOLCHAIN_SWITCHER>> }

\* the decision replies a call may get
ConcurrentReplies ==
    { Err("transport"), Ok(NotJson),
      Ok(JObj(<<Member("function", JNull)>>)),
      Ok(JObj(<<Member("function", JStr(DDG_SEARCHER))>>)),
      Ok(JObj(<<Member("function", JStr(RUST_TOOLCHAIN_SWITCHER))>>)) }

\* what send_function_call may return to a call
ConcurrentFunctionCallOutcomes ==
    { Err("function call"), Ok([message |-> None]),
      Ok([message |-> Some([content |-> <<"o","k">>])]) }

\* the locals of a call that has not started
NewCall(q) ==
    [pc |-> "main", question |-> q, sent |-> <<>>, decisionReply |-> Pending,
     decision |-> Pending, toolCall |-> NotCalled, streamPrompt |-> None,
     result |-> Pending]

InitConcurrent ==
    /\ config \in ConcurrentConfigs
    /\ functions = parse_functions(config)
    /\ log = unknown_tools(config)
    /\ rq \in [Requests -> {NewCall(q) : q \in Questions}]
    /\ pc = "shared"
    /\ question = <<>>
    /\ requests = <<>>
    /\ decisionReply = Pending
    /\ decision = Pending
    /\ toolCall = NotCalled
    /\ streamPrompt = None
    /\ result = Pending
    /\ stream = "none"
    /\ pulled = <<>>
    /\ out = <<>>

\* one `question` field shared by the calls, holding the first call's
question_shared(calls, i) == calls[1].question

\* the local `question` of call i (line 77)
question_of(calls, i) == calls[i].question

\* call i starts: request_function up to the await of the completion
\* request
CallGenerateStream(i) ==
    /\ rq[i].pc = "main"
    /\ \E order \in iter_orders(functions) :
          rq' = [rq EXCEPT ![i].pc = "deciding",
                           ![i].sent = Append(@,
                               [api |-> "generate",
                                prompt |-> function_calling_prompt(question_of(rq, i),
                                               functions_description(functions, order))])]
    /\ UNCHANGED <<pc, config, question, functions, log, requests, decisionReply,
                   decision, toolCall, streamPrompt, result, stream, pulled, out>>

\* call i gets the reply to its completion request
CallDecisionReply(i) ==
    /\ rq[i].pc = "deciding"
    /\ \E reply \in ConcurrentReplies :
         LET d == decide(functions, reply) IN
         rq' = [rq EXCEPT ![i] =
                  IF ~d.ok
                  THEN [@ EXCEPT !.decisionReply = reply, !.decision = d,
                                 !.result = Err(d.e), !.pc = "returned"]
                  ELSE IF d.v.some
                  THEN [@ EXCEPT !.decisionReply = reply, !.decision = d,
                                 !.sent = Append(@,
                                     [api |-> "send_function_call",
                                      tool |-> functions[d.v.v],
                                      message |-> question_of(rq, i)]),
                                 !.pc = "invoking"]
                  ELSE [@ EXCEPT !.decisionReply = reply, !.decision = d,
                                 !.sent = Append(@,
                                     [api |-> "generate_stream",
                                      prompt |-> generation_prompt(question_of(rq, i))]),
                                 !.streamPrompt = Some(generation_prompt(question_of(rq, i))),
                                 !.pc = "opening"]]
    /\ UNCHANGED <<pc, config, question, functions, log, requests, decisionReply,
                   decision, toolCall, streamPrompt, result, stream, pulled, out>>

\* call i gets the result of send_function_call
CallFunctionCallReply(i) ==
    /\ rq[i].pc = "invoking"
    /\ \E r \in ConcurrentFunctionCallOutcomes :
         rq' = [rq EXCEPT ![i] =
                  IF ~r.ok
                  THEN [@ EXCEPT !.toolCall = [called |-> TRUE, r |-> r],
                                 !.result = Err(r.e), !.pc = "returned"]
                  ELSE IF ~r.v.message.some
                  THEN [@ EXCEPT !.toolCall = [called |-> TRUE, r |-> r],
                                 !.result = Panic("message.unwrap() on None"),
                                 !.pc = "panicked"]
                  ELSE [@ EXCEPT !.toolCall = [called |-> TRUE, r |-> r],
                                 !.sent = Append(@,
                                     [api |-> "generate_stream",
                                      prompt |-> summary_prompt(question_of(rq, i),
                                                     r.v.message.v.content)]),
                                 !.streamPrompt = Some(summary_prompt(question_of(rq, i),
                                                     r.v.message.v.content)),
                                 !.pc = "opening"]]
    /\ UNCHANGED <<pc, config, question, functions, log, requests, decisionReply,
                   decision, toolCall, streamPrompt, result, stream, pulled, out>>

\* call i gets the answer to its streaming request and returns
CallStreamOpenReply(i) ==
    /\ rq[i].pc = "opening"
    /\ \/ rq' = [rq EXCEPT ![i].result = Err("transport"), ![i].pc = "returned"]
       \/ rq' = [rq EXCEPT ![i].result = Ok([stream_of |-> rq[i].streamPrompt.v]),
                           ![i].pc = "returned"]
    /\ UNCHANGED <<pc, config, question, functions, log, requests, decisionReply,
                   decision, toolCall, streamPrompt, result, stream, pulled, out>>

NextConcurrent ==
    \/ \E i \in Requests : CallGenerateStream(i)
    \/ \E i \in Requests : CallDecisionReply(i)
    \/ \E i \in Requests : CallFunctionCallReply(i)
    \/ \E i \in Requests : CallStreamOpenReply(i)

SpecConcurrent == InitConcurrent /\ [][NextConcurrent]_vars

(***************************************************************************)
(* Vocabulary of the properties                                            *)
(***************************************************************************)
IsErr(r) == "ok" \in DOMAIN r /\ ~r.ok
IsOk(r)  == "ok" \in DOMAIN r /\ r.ok

RECURSIVE Strip(_, _)
\* s without the characters of cs at either end
Strip(s, cs) ==
    IF s # <<>> /\ Head(s) \in cs THEN Strip(Tail(s), cs)
    ELSE IF s # <<>> /\ s[Len(s)] \in cs THEN Strip(SubSeq(s, 1, Len(s) - 1), cs)
    ELSE s

Lowered(s) ==
    [i \in 1..Len(s) |->
        IF \E j \in 1..26 : UPPER[j] = s[i]
        THEN LOWER[CHOOSE j \in 1..26 : UPPER[j] = s[i]] ELSE s[i]]

\* "null" in any casing, inside any whitespace and quote characters
IsNullWord(s) == Lowered(Strip(s, WHITESPACE \cup {"'", "\""})) = NULL

\* the `function` members of an object payload, in order
FunctionValues(p) ==
    LET at == {i \in 1..Len(p.members) : p.members[i].key = "function"}
    IN  {p.members[i].value : i \in at}
FunctionCount(p) ==
    Cardinality({i \in 1..Len(p.members) : p.members[i].key = "function"})

\* an object whose `function` is absent, null or a null word
NullDecision(p) ==
    /\ p.t = "object"
    /\ FunctionCount(p) <= 1
    /\ \A v \in FunctionValues(p) : v.t = "null" \/ (v.t = "string" /\ IsNullWord(v.s))

\* an object with one `function` member, a string
StringDecision(p) ==
    /\ p.t = "object"
    /\ FunctionCount(p) = 1
    /\ \A v \in FunctionValues(p) : v.t = "string"

\* the one shape of the wire contract: {"function": <string> | null}
ExactShape(p) ==
    /\ p.t = "object"
    /\ Len(p.members) = 1
    /\ p.members[1].key = "function"
    /\ p.members[1].value.t \in {"string", "null"}

\* the payloads the parser takes: an object with at most one `function`
\* member, a string or null, beside any other members; or an array of one
\* string or null
Accepted(p) ==
    \/ /\ p.t = "object"
       /\ FunctionCount(p) <= 1
       /\ \A v \in FunctionValues(p) : v.t \in {"string", "null"}
    \/ /\ p.t = "array"
       /\ Len(p.items) = 1
       /\ p.items[1].t \in {"string", "null"}

Replied     == decisionReply # Pending
GotPayload  == Replied /\ decisionReply.ok
ToolFailed  == toolCall # NotCalled /\ ~toolCall.r.ok
ToolAnswered == toolCall # NotCalled /\ toolCall.r.ok /\ toolCall.r.v.message.some
ToolAnswer  == toolCall.r.v.message.v.content

GenerationOf(q)   == <<GENERATION_1>> \o q
SummaryOf(q, a)   == <<SUMMARIZING_1>> \o q \o <<SUMMARIZING_2>> \o a \o <<SUMMARIZING_3>>
IsGeneration(p)   == p # <<>> /\ Head(p) = GENERATION_1
IsSummary(p)      == p # <<>> /\ Head(p) = SUMMARIZING_1

StreamRequests == {i \in 1..Len(requests) : requests[i].api = "generate_stream"}
ToolRequests   == {i \in 1..Len(requests) : requests[i].api = "send_function_call"}

RECURSIVE Flatten(_)
\* the texts of the items pulled so far, in order
Flatten(items) ==
    IF items = <<>> THEN <<>> ELSE Head(items).v \o Flatten(Tail(items))

\* the texts of the fragments written so far, in order
FragmentsWritten ==
    LET idx == {i \in 1..Len(out) : out[i].kind = "fragment"}
    IN  [n \in 1..Cardinality(idx) |->
            out[CHOOSE i \in idx : Cardinality({j \in idx : j <= i}) = n].text]

(***************************************************************************)
(* C1                                                                      *)
(***************************************************************************)
\* C1: once call_function has failed, the request goes on through direct
\* generation: the streaming request carries the generation prompt of the
\* question and generate_stream does not return the tool's error.
C1_ToolFailureFallsBack ==
    ToolFailed =>
        /\ streamPrompt = Some(GenerationOf(question))
        /\ StreamRequests # {}
        /\ ~IsErr(result)

(***************************************************************************)
(* C2                                                                      *)
(***************************************************************************)
\* C2: a decision payload whose `function` is null, absent or a null word
\* (any casing, whitespace and quotes around it) gives Ok(None), whatever
\* the catalog.
C2_NullFunctionIsNoTool ==
    (GotPayload /\ NullDecision(decisionReply.v)) => decision = Ok(None)

C2_Witness ==
    /\ GotPayload
    /\ decisionReply.v =
         JObj(<<Member("function", JStr(<<"\"","n","u","l","l","\"">>))>>)
    /\ DOMAIN functions = {DDG_SEARCHER, RUST_TOOLCHAIN_SWITCHER}
    /\ decision = Ok(None)

(***************************************************************************)
(* C3                                                                      *)
(***************************************************************************)
\* C3: a payload whose `function` string, normalized, is no key of the
\* catalog gives Ok(None), not an error, and the request goes on to direct
\* generation without any tool call.
C3_UnknownToolIsNoTool ==
    (GotPayload /\ StringDecision(decisionReply.v)
       /\ \A v \in FunctionValues(decisionReply.v) :
             function_name_of(v.s) \notin DOMAIN functions)
    => /\ decision = Ok(None)
       /\ toolCall = NotCalled
       /\ ToolRequests = {}
       /\ streamPrompt = Some(GenerationOf(question))

C3_Witness ==
    /\ GotPayload
    /\ decisionReply.v = JObj(<<Member("function", JStr(RUST_TOOLCHAIN_SWITCHER))>>)
    /\ DOMAIN functions = {DDG_SEARCHER}
    /\ decision = Ok(None)
    /\ pc = "opening"

(***************************************************************************)
(* C4                                                                      *)
(***************************************************************************)
\* C4: parse_functions always returns, and the catalog it returns has as keys
\* exactly the known identifiers that some configured name equals once
\* trimmed and lower-cased, each bound to its own tool; the empty list gives
\* the empty catalog.
C4_CatalogIsKnownNames ==
    /\ pc = "new" => ENABLED SharkNew
    /\ pc = "main" =>
         LET names == {Lowered(Strip(config[i], WHITESPACE)) : i \in 1..Len(config)} IN
         /\ DOMAIN functions = names \cap {DDG_SEARCHER, RUST_TOOLCHAIN_SWITCHER}
         /\ DDG_SEARCHER \in DOMAIN functions => functions[DDG_SEARCHER] = "DDGSearcher"
         /\ RUST_TOOLCHAIN_SWITCHER \in DOMAIN functions =>
              functions[RUST_TOOLCHAIN_SWITCHER] = "RustToolchainSwitcher"
         /\ config = <<>> => functions = EmptyMap

C4_Witness ==
    /\ pc = "main"
    /\ config = << <<" ","D","D","G","_","S","e","a","r","c","h","e","r","\n">>,
                   <<"d","d","g"," ","s","e","a","r","c","h","e","r">> >>
    /\ DOMAIN functions = {DDG_SEARCHER}
    /\ log = << <<"d","d","g"," ","s","e","a","r","c","h","e","r">> >>

(***************************************************************************)
(* C5                                                                      *)
(***************************************************************************)
\* C5, as stated: with an empty catalog, whatever the backend answers to
\* the decision call, the decision is NoTool and the streaming request
\* carries the generation prompt of the question.
C5_EmptyCatalogAlwaysDirect ==
    (Replied /\ DOMAIN functions = {}) =>
        /\ decision = Ok(None)
        /\ streamPrompt = Some(GenerationOf(question))

\* C5, amended: with an empty catalog, whenever the decision call succeeds
\* and its payload parses, the decision is NoTool, no tool is called and the
\* one streaming request carries the generation prompt of the question.
C5_EmptyCatalogDirectWhenParsed ==
    (GotPayload /\ Accepted(decisionReply.v) /\ DOMAIN functions = {}) =>
        /\ decision = Ok(None)
        /\ toolCall = NotCalled
        /\ ToolRequests = {}
        /\ streamPrompt = Some(GenerationOf(question))
        /\ Cardinality(StreamRequests) = 1
        /\ requests[Len(requests)] =
             [api |-> "generate_stream", prompt |-> GenerationOf(question)]

C5_Witness ==
    /\ GotPayload
    /\ decisionReply.v = JObj(<<Member("function", JStr(DDG_SEARCHER))>>)
    /\ functions = EmptyMap
    /\ config # <<>>
    /\ stream = "ended"
    /\ streamPrompt = Some(GenerationOf(question))

(***************************************************************************)
(* C6                                                                      *)
(***************************************************************************)
\* C6: a request that issues a streaming request took exactly one path: the
\* prompt is the summary prompt exactly when the decision was a tool and the
\* tool was called, the generation prompt exactly when the decision was
\* NoTool and no tool was called; either way there is one streaming request,
\* the last request made.
C6_ExactlyOnePath ==
    streamPrompt.some =>
        /\ IsSummary(streamPrompt.v) <=>
             (IsOk(decision) /\ decision.v.some /\ toolCall # NotCalled)
        /\ IsGeneration(streamPrompt.v) <=>
             (decision = Ok(None) /\ toolCall = NotCalled)
        /\ IsSummary(streamPrompt.v) # IsGeneration(streamPrompt.v)
        /\ Cardinality(StreamRequests) = 1
        /\ requests[Len(requests)] =
             [api |-> "generate_stream", prompt |-> streamPrompt.v]

C6_Witness ==
    /\ pc = "streaming"
    /\ IsSummary(streamPrompt.v)
    /\ decision = Ok(Some(RUST_TOOLCHAIN_SWITCHER))
    /\ Cardinality(ToolRequests) = 1

(***************************************************************************)
(* C7                                                                      *)
(***************************************************************************)
\* C7: on the tool path the prompt of the streaming request is the summary
\* template rendered with the question and the tool's output, so both texts
\* occur in it; the stream returned is the backend's for that prompt, and
\* what is written are that stream's fragments.
C7_SummaryPromptOfToolOutput ==
    ToolAnswered =>
        /\ streamPrompt = Some(SummaryOf(question, ToolAnswer))
        /\ Contains(streamPrompt.v, question)
        /\ Contains(streamPrompt.v, ToolAnswer)
        /\ requests[Len(requests)] =
             [api |-> "generate_stream", prompt |-> SummaryOf(question, ToolAnswer)]
        /\ IsOk(result) => result.v.stream_of = SummaryOf(question, ToolAnswer)
        /\ FragmentsWritten = Flatten(pulled)

C7_Witness ==
    /\ ToolAnswered
    /\ ToolAnswer = <<"o","k">>
    /\ stream = "ended"
    /\ FragmentsWritten = <<"a", "b", "c">>
    /\ streamPrompt = Some(SummaryOf(question, <<"o","k">>))

(***************************************************************************)
(* C8                                                                      *)
(***************************************************************************)
\* C8: when the decision call fails or its output does not parse,
\* generate_stream returns an error, and in that request no tool is called
\* and no streaming request is made.
C8_DecisionFailureIsError ==
    (Replied /\ (~decisionReply.ok \/ ~Accepted(decisionReply.v))) =>
        /\ IsErr(decision)
        /\ IsErr(result)
        /\ pc \in {"returned", "exit"}
        /\ toolCall = NotCalled
        /\ streamPrompt = None
        /\ stream = "none"
        /\ \A i \in 1..Len(requests) : requests[i].api = "generate"

C8_Witness ==
    /\ Replied
    /\ decisionReply = Ok(NotJson)
    /\ result = Err("json")
    /\ pc = "exit"
    /\ Len(requests) = 1

(***************************************************************************)
(* C9                                                                      *)
(***************************************************************************)
\* C9, as stated: the parser accepts the one shape {"function": <string> |
\* null} and rejects every payload of any other shape with an error.
C9_OnlyExactShapeAccepted ==
    GotPayload => (IsOk(decision) <=> ExactShape(decisionReply.v))

\* C9, amended: the parser rejects a text that is not JSON, a JSON value
\* that is neither an object nor a one-element array, a `function` value
\* that is neither a string nor null, and a repeated `function` member; it
\* accepts every other object, so one with further members (ignored) and
\* one without `function` (read as null), and the array of one string or
\* null.
C9_AcceptedPayloads ==
    GotPayload =>
        /\ IsOk(decision) <=> Accepted(decisionReply.v)
        /\ ~Accepted(decisionReply.v) => result = Err("json")
        /\ (decisionReply.v.t = "object" /\ FunctionCount(decisionReply.v) = 0)
              => decision = Ok(None)

C9_Witness ==
    /\ GotPayload
    /\ decisionReply.v =
         JObj(<<Member("function", JStr(DDG_SEARCHER)), Member("thought", JNum)>>)
    /\ decision = Ok(Some(DDG_SEARCHER))
    /\ pc = "invoking"

(***************************************************************************)
(* C10                                                                     *)
(***************************************************************************)
\* C10: when a stream item fails after fragments were written, the
\* fragments stay as written and an error indicator is written after them,
\* so the output differs from that of a stream that ended normally.
C10_ErrorIndicatorAfterFailure ==
    (stream = "failed" /\ pulled # <<>>) =>
        /\ FragmentsWritten = Flatten(pulled)
        /\ \E i \in 1..Len(out) :
              /\ out[i].kind = "error"
              /\ \A j \in 1..Len(out) : out[j].kind = "fragment" => j < i

(***************************************************************************)
(* C11                                                                     *)
(***************************************************************************)
\* C11: when generate_stream returns an error, the output is the one error
\* message and nothing else: no fragment, no item pulled, no stream, and
\* nothing after the message.
C11_ErrorIsOneMessage ==
    IsErr(result) =>
        /\ pulled = <<>>
        /\ stream = "none"
        /\ pc \in {"returned", "exit"}
        /\ pc = "returned" => out = <<>>
        /\ pc = "exit" => /\ Len(out) = 1
                          /\ out[1].kind = "error"
                          /\ out[1].text = result.e

C11_Witness ==
    /\ result = Err("transport")
    /\ StreamRequests # {}
    /\ pc = "exit"
    /\ Len(out) = 1
    /\ out[1].kind = "error"

(***************************************************************************)
(* C12                                                                     *)
(***************************************************************************)
\* C12: while streaming, what has been written is exactly the fragments
\* received so far, in the order received, each one flushed: before the next
\* item is pulled nothing is held back.
C12_WrittenAsReceived ==
    stream # "none" =>
        /\ FragmentsWritten = Flatten(pulled)
        /\ \A i \in 1..Len(out) : out[i].kind = "fragment" => out[i].flushed
        /\ \A i \in 1..Len(out) : out[i].kind = "fragment" => i <= Len(Flatten(pulled))

C12_Witness ==
    /\ pc = "streaming"
    /\ Len(pulled) = 2
    /\ FragmentsWritten = <<"b", "c", "a">>

(***************************************************************************)
(* C13                                                                     *)
(***************************************************************************)
\* C13: when the stream ends normally, the fragments delivered are, one for
\* one and in order, the fragments of the backend's stream for the prompt of
\* the one streaming request: the output is those fragments and then the
\* closing newline.
C13_DeliveredIsBackendText ==
    stream = "ended" =>
        /\ Len(out) = Len(Flatten(pulled)) + 1
        /\ \A i \in 1..Len(Flatten(pulled)) :
              out[i].kind = "fragment" /\ out[i].text = Flatten(pulled)[i]
        /\ out[Len(out)].kind = "newline"
        /\ result = Ok([stream_of |-> streamPrompt.v])
        /\ Cardinality(StreamRequests) = 1
        /\ requests[Len(requests)].prompt = streamPrompt.v

C13_Witness ==
    /\ stream = "ended"
    /\ pulled = <<Ok(<<"b", "c">>), Ok(<<"b", "c">>)>>
    /\ Len(out) = 5
    /\ IsGeneration(streamPrompt.v)

(***************************************************************************)
(* C14                                                                     *)
(***************************************************************************)
\* the replies generate_stream has had to its requests
RepliesReceived ==
    (IF Replied THEN 1 ELSE 0)
    + (IF toolCall # NotCalled THEN 1 ELSE 0)
    + (IF streamPrompt.some /\ result # Pending THEN 1 ELSE 0)

\* C14: the phases of a request follow one another: the decision request
\* has its reply before the tool is called, the tool call has returned
\* before the streaming request is made, no fragment is delivered before
\* the stream is returned, and at no time are two requests awaited.
C14_PhasesSequential ==
    /\ Len(requests) - RepliesReceived \in {0, 1}
    /\ \A i \in 1..Len(requests) : requests[i].api = "generate" <=> i = 1
    /\ \A i \in ToolRequests : i = 2 /\ Replied /\ IsOk(decision)
    /\ \A i \in StreamRequests :
          /\ i = Len(requests)
          /\ Replied
          /\ ToolRequests # {} => toolCall # NotCalled
    /\ (pulled # <<>> \/ \E i \in 1..Len(out) : out[i].kind = "fragment")
          => (StreamRequests # {} /\ IsOk(result))
    /\ pc = "deciding"  => Len(requests) = 1 /\ RepliesReceived = 0
    /\ pc = "invoking"  => Len(requests) = 2 /\ RepliesReceived = 1
    /\ pc = "opening"   => Len(requests) - RepliesReceived = 1
    /\ pc = "streaming" => Len(requests) = RepliesReceived

C14_Witness ==
    /\ pc = "streaming"
    /\ pulled # <<>>
    /\ Len(requests) = 3
    /\ requests[2].api = "send_function_call"
    /\ requests[3].api = "generate_stream"

(***************************************************************************)
(* C15                                                                     *)
(***************************************************************************)
\* C15: nothing is tried twice: a request makes at most one decision
\* request, one tool call and one streaming request, and once an error was
\* returned or a stream item failed, no request is made after the one that
\* failed.
C15_NoRetry ==
    /\ Cardinality({i \in 1..Len(requests) : requests[i].api = "generate"}) <= 1
    /\ Cardinality(ToolRequests) <= 1
    /\ Cardinality(StreamRequests) <= 1
    /\ (IsErr(result) \/ stream = "failed") =>
          /\ Len(requests) = RepliesReceived
          /\ pc \in {"returned", "exit"}

C15_Witness ==
    /\ result = Err("function call")
    /\ pc = "exit"
    /\ Len(requests) = 2
    /\ Len(out) = 1

(***************************************************************************)
(* C16                                                                     *)
(***************************************************************************)
\* C16: after Shark::new no step changes the catalog, neither its keys nor
\* its entries.
C16_CatalogUnchanged == [][pc # "new" => functions' = functions]_vars

C16_Witness ==
    /\ pc = "exit"
    /\ stream = "failed"
    /\ ToolAnswered
    /\ DOMAIN functions = {DDG_SEARCHER, RUST_TOOLCHAIN_SWITCHER}
    /\ functions = parse_functions(config)

(***************************************************************************)
(* C18                                                                     *)
(***************************************************************************)
\* the `function` string of a payload the parser takes, if it has one
DecisionStrings(p) ==
    IF ~Accepted(p) THEN {}
    ELSE IF p.t = "object" THEN {v.s : v \in {w \in FunctionValues(p) : w.t = "string"}}
    ELSE {p.items[i].s : i \in {j \in 1..Len(p.items) : p.items[j].t = "string"}}

\* trimmed, lower-cased, the quote characters around it stripped
StrippedName(s) == Lowered(Strip(Strip(s, WHITESPACE), {"'", "\""}))

\* trimmed, lower-cased, every single-quote character taken out
UnquotedName(s) == SelectSeq(Lowered(Strip(s, WHITESPACE)), LAMBDA c : c # "'")

\* C18, as stated: the tool handed to call_function is the catalog entry
\* whose key is the decision's `function` string trimmed, lower-cased and
\* stripped of its quotes, and whenever that name is a key (and not "null")
\* the decision is UseTool of that entry.
C18_ToolIsStrippedName ==
    GotPayload => \A s \in DecisionStrings(decisionReply.v) :
        /\ ToolRequests # {} =>
              /\ StrippedName(s) \in DOMAIN functions
              /\ requests[2].tool = functions[StrippedName(s)]
        /\ (StrippedName(s) \in DOMAIN functions /\ StrippedName(s) # NULL) =>
              decision = Ok(Some(StrippedName(s)))

\* C18, amended: the same with the name trimmed, lower-cased and with every
\* single-quote character removed (double quotes stay, so a double-quoted
\* name is no key); and no tool is called without such a name.
C18_ToolIsUnquotedName ==
    /\ ToolRequests # {} => (GotPayload /\ DecisionStrings(decisionReply.v) # {})
    /\ GotPayload => \A s \in DecisionStrings(decisionReply.v) :
        /\ ToolRequests # {} =>
              /\ UnquotedName(s) \in DOMAIN functions
              /\ requests[2].tool = functions[UnquotedName(s)]
        /\ (UnquotedName(s) \in DOMAIN functions /\ UnquotedName(s) # NULL) =>
              /\ decision = Ok(Some(UnquotedName(s)))
              /\ Cardinality(ToolRequests) = 1

C18_Witness ==
    /\ GotPayload
    /\ decisionReply.v =
         JObj(<<Member("function",
                JStr(<<"'","d","d","g","_","s","e","a","r","c","h","e","r","'">>))>>)
    /\ decision = Ok(Some(DDG_SEARCHER))
    /\ pc = "invoking"
    /\ requests[2].tool = "DDGSearcher"

(***************************************************************************)
(* C19                                                                     *)
(***************************************************************************)
\* C19: a request ends in DONE or ERRORED: when no step is left, main has
\* returned after the stream was exhausted, after a stream item failed (none
\* pulled after it) or after generate_stream returned an error.
C19_EndsDoneOrErrored ==
    ~(ENABLED Next) =>
        /\ pc = "exit"
        /\ stream \in {"ended", "failed"} \/ IsErr(result)

(***************************************************************************)
(* C20                                                                     *)
(***************************************************************************)
\* C20: no outcome of the backend or of a tool makes generate_stream or
\* RustToolchainSwitcher::run panic: each ends by returning a value or an
\* Err.
C20_NeverPanics ==
    /\ pc # "panicked"
    /\ "panic" \notin DOMAIN result

(***************************************************************************)
(* C17                                                                     *)
(***************************************************************************)
\* what a call running alone decides on a reply: an error, or the key of the
\* tool chosen, or None
AloneDecision(fns, reply) ==
    IF ~reply.ok \/ ~Accepted(reply.v) THEN Err("no decision")
    ELSE LET keys == {UnquotedName(s) : s \in DecisionStrings(reply.v)}
                        \cap ((DOMAIN fns) \ {NULL})
         IN  IF keys = {} THEN Ok(None) ELSE Ok(Some(CHOOSE k \in keys : TRUE))

\* the requests a call running alone has made, given its own replies
AloneSent(fns, c) ==
    IF c.sent = <<>> THEN <<>>
    ELSE <<c.sent[1]>>
         \o (IF c.decisionReply = Pending \/ IsErr(AloneDecision(fns, c.decisionReply))
             THEN <<>>
             ELSE IF AloneDecision(fns, c.decisionReply) = Ok(None)
             THEN <<[api |-> "generate_stream", prompt |-> GenerationOf(c.question)]>>
             ELSE <<[api |-> "send_function_call",
                     tool |-> fns[AloneDecision(fns, c.decisionReply).v.v],
                     message |-> c.question]>>
                  \o (IF c.toolCall # NotCalled /\ c.toolCall.r.ok
                         /\ c.toolCall.r.v.message.some
                      THEN <<[api |-> "generate_stream",
                              prompt |-> SummaryOf(c.question,
                                             c.toolCall.r.v.message.v.content)]>>
                      ELSE <<>>))

\* C17: whatever the interleaving of the calls' steps, each call's decision,
\* path, prompts and result are those of a call running alone on the same
\* catalog with the same question and the same replies.
C17_NoInterference ==
    \A i \in Requests : LET c == rq[i] IN
        /\ c.sent # <<>> =>
              /\ c.sent[1].api = "generate"
              /\ SubSeq(c.sent[1].prompt, 1, Len(c.question) + 2)
                   = <<FUNCTION_CALLING_1>> \o c.question \o <<FUNCTION_CALLING_2>>
        /\ c.decisionReply # Pending =>
              IF IsErr(AloneDecision(functions, c.decisionReply))
              THEN IsErr(c.decision) /\ c.result = c.decision
              ELSE c.decision = AloneDecision(functions, c.decisionReply)
        /\ c.sent = AloneSent(functions, c)
        /\ c.streamPrompt.some =>
              /\ c.sent[Len(c.sent)] =
                   [api |-> "generate_stream", prompt |-> c.streamPrompt.v]
              /\ IsOk(c.result) => c.result.v.stream_of = c.streamPrompt.v
        /\ (c.toolCall # NotCalled /\ ~c.toolCall.r.ok) => c.result = Err(c.toolCall.r.e)
        /\ functions = parse_functions(config)

C17_Witness ==
    /\ rq[1].question # rq[2].question
    /\ rq[1].pc = "returned"
    /\ rq[2].pc = "returned"
    /\ IsOk(rq[1].result)
    /\ IsSummary(rq[1].streamPrompt.v)
    /\ IsOk(rq[2].result)
    /\ rq[2].streamPrompt = Some(GenerationOf(rq[2].question))
    /\ rq[1].decisionReply # rq[2].decisionReply

====
